---- MODULE Spec2Model ----
(***************************************************************************)
(* KodeX-CLI (src/cli.js): the ComponentBuilder's build command as a state *)
(* machine.  Strings are sequences of one-character strings, so that the   *)
(* string operations of the code (replace, toLowerCase, split, template    *)
(* literals, sort) are computed character by character.                    *)
(***************************************************************************)
EXTENDS Integers, Sequences, FiniteSets, TLC

\* ---------------------------------------------------------------- bounds
\* The largest number of directory entries of components/ in an initial state.
MaxFiles == 3

\* ---------------------------------------------------------------- strings
Lower == <<"a","b","c","d","e","f","g","h","i","j","k","l","m",
           "n","o","p","q","r","s","t","u","v","w","x","y","z">>
Upper == <<"A","B","C","D","E","F","G","H","I","J","K","L","M",
           "N","O","P","Q","R","S","T","U","V","W","X","Y","Z">>
Digits == <<"0","1","2","3","4","5","6","7","8","9">>

Range(s) == {s[i] : i \in DOMAIN s}
IndexIn(s, c) == CHOOSE i \in DOMAIN s : s[i] = c

IsLower(c) == c \in Range(Lower)
IsUpper(c) == c \in Range(Upper)
IsDigit(c) == c \in Range(Digits)
IsSpaceChar(c) == c \in {" ", "\n", "\t"}

\* UTF-16 code unit of a character (the order Array.prototype.sort compares by).
CharCode(c) ==
    IF IsUpper(c) THEN 64 + IndexIn(Upper, c)
    ELSE IF IsLower(c) THEN 96 + IndexIn(Lower, c)
    ELSE IF IsDigit(c) THEN 47 + IndexIn(Digits, c)
    ELSE CASE c = "\t" -> 9
           [] c = "\n" -> 10
           [] c = " " -> 32
           [] c = "!" -> 33
           [] c = "(" -> 40
           [] c = ")" -> 41
           [] c = "*" -> 42
           [] c = "-" -> 45
           [] c = "." -> 46
           [] c = "/" -> 47
           [] c = ":" -> 58
           [] c = "_" -> 95

\* String.prototype.toLowerCase, one character.
LowerChar(c) == IF IsUpper(c) THEN Lower[IndexIn(Upper, c)] ELSE c
ToLowerCase(s) == [i \in DOMAIN s |-> LowerChar(s[i])]

StartsWith(s, p) == Len(s) >= Len(p) /\ SubSeq(s, 1, Len(p)) = p
EndsWith(s, p) == Len(s) >= Len(p) /\ SubSeq(s, Len(s) - Len(p) + 1, Len(s)) = p

\* Number to its decimal string (template literal `${n}`).
RECURSIVE NatToStr(_)
NatToStr(n) == IF n < 10 THEN <<Digits[n + 1]>>
               ELSE NatToStr(n \div 10) \o <<Digits[(n % 10) + 1]>>

\* s < t in the order of the default sort: code units, a prefix first.
RECURSIVE StrLess(_, _)
StrLess(s, t) ==
    IF t = <<>> THEN FALSE
    ELSE IF s = <<>> THEN TRUE
    ELSE IF CharCode(s[1]) # CharCode(t[1]) THEN CharCode(s[1]) < CharCode(t[1])
    ELSE StrLess(Tail(s), Tail(t))

\* ---------------------------------------------------------------- values
\* The value of a property that an object does not have.
Undefined == <<"undefined">>

\* obj.key of a parsed JSON object (a function from its keys).
Field(obj, key) == IF key \in DOMAIN obj THEN obj[key] ELSE Undefined

\* Truthiness of a string-or-undefined value: undefined and "" are falsy.
Truthy(v) == v # Undefined /\ v # <<>>

\* ---------------------------------------------------------------- the directory
\* Directory entries the initial states draw from: name, whether the text
\* parses as JSON, and the parsed object.
DotJson == <<".","j","s","o","n">>
Css == <<"c","s","s">>

FileA == [name |-> <<"a">> \o DotJson, valid |-> TRUE,
          obj |-> [title |-> <<"A">>, description |-> <<"d","a">>,
                   type |-> Css, content |-> <<"x">>]]
FileB == [name |-> <<"b">> \o DotJson, valid |-> TRUE,
          obj |-> [title |-> <<"B">>, description |-> <<"d","b">>,
                   type |-> Css, content |-> <<"y">>, group |-> <<"g">>]]
FileC == [name |-> <<"c">> \o DotJson, valid |-> TRUE,
          obj |-> [title |-> <<"A">>, description |-> <<"d","a">>,
                   type |-> Css, content |-> <<"z">>, group |-> <<"g">>]]
FileD == [name |-> <<"d">> \o DotJson, valid |-> TRUE,
          obj |-> [title |-> <<"-","A"," "," ","b","!">>, description |-> <<"d","d">>,
                   type |-> <<"j","s">>, content |-> <<"w">>, group |-> <<"h">>]]
\* A record without type.
FileN == [name |-> <<"n">> \o DotJson, valid |-> TRUE,
          obj |-> [title |-> <<"N">>, description |-> <<"d","n">>,
                   content |-> <<"t">>]]
\* A file whose text is not JSON.
FileBad == [name |-> <<"z">> \o DotJson, valid |-> FALSE, obj |-> [title |-> <<>>]]
\* A file that is not named *.json.
FileTxt == [name |-> <<"r",".","t","x","t">>, valid |-> FALSE, obj |-> [title |-> <<>>]]

Catalog == {FileA, FileB, FileC, FileD, FileN, FileBad, FileTxt}

\* Records whose types and groups contain "_" and digits.
FileK1 == [name |-> <<"k","1">> \o DotJson, valid |-> TRUE,
           obj |-> [title |-> <<"K">>, description |-> <<"d","k">>,
                    type |-> <<"1">>, content |-> <<"p">>, group |-> <<"1","_","x">>]]
FileK2 == [name |-> <<"k","2">> \o DotJson, valid |-> TRUE,
           obj |-> [title |-> <<"L">>, description |-> <<"d","l">>,
                    type |-> <<"1">>, content |-> <<"q">>, group |-> <<"1","_","x">>]]
FileK3 == [name |-> <<"k","3">> \o DotJson, valid |-> TRUE,
           obj |-> [title |-> <<"M">>, description |-> <<"d","m">>,
                    type |-> <<"1","_","1">>, content |-> <<"r">>, group |-> <<"x">>]]
FileK4 == [name |-> <<"k","4">> \o DotJson, valid |-> TRUE,
           obj |-> [title |-> <<"O">>, description |-> <<"d","o">>,
                    type |-> <<"1">>, content |-> <<"s">>]]

KeysCatalog == {FileK1, FileK2, FileK3, FileK4}

\* Records whose group is the empty string, or holds a ':'.
FileE1 == [name |-> <<"e","1">> \o DotJson, valid |-> TRUE,
           obj |-> [title |-> <<"E">>, description |-> <<"d","e">>,
                    type |-> Css, content |-> <<"u">>, group |-> <<>>]]
FileE2 == [name |-> <<"e","2">> \o DotJson, valid |-> TRUE,
           obj |-> [title |-> <<"F">>, description |-> <<"d","f">>,
                    type |-> Css, content |-> <<"v">>, group |-> <<"a",":","b">>]]

\* A record whose type is spelled in upper case.
FileE3 == [name |-> <<"e","3">> \o DotJson, valid |-> TRUE,
           obj |-> [title |-> <<"G">>, description |-> <<"d","g">>,
                    type |-> <<"C","S","S">>, content |-> <<"o">>]]

EdgeCatalog == {FileE1, FileE2, FileE3, FileB, FileD}

\* Sequences of distinct entries of cat, at most n long (a directory listing).
RECURSIVE Listings(_, _)
Listings(cat, n) ==
    IF n = 0 THEN {<<>>}
    ELSE LET shorter == Listings(cat, n - 1)
         IN  shorter \cup {Append(l, f) : l \in {x \in shorter : Len(x) = n - 1},
                                          f \in cat}

Distinct(l) == \A i, j \in DOMAIN l : i # j => l[i] # l[j]


\* ---------------------------------------------------------------- JS objects
\* A plain object with string keys: its properties in creation order.
\* Object.entries lists integer-like keys first, ascending, then the others
\* in creation order.
ObjHas(o, k) == \E i \in DOMAIN o : o[i].key = k
ObjGet(o, k) == o[CHOOSE i \in DOMAIN o : o[i].key = k].val
ObjSet(o, k, v) ==
    IF ObjHas(o, k) THEN [i \in DOMAIN o |-> IF o[i].key = k THEN [key |-> k, val |-> v] ELSE o[i]]
    ELSE Append(o, [key |-> k, val |-> v])

RECURSIVE StrToNat(_)
StrToNat(s) == IF s = <<>> THEN 0
               ELSE 10 * StrToNat(SubSeq(s, 1, Len(s) - 1)) + (IndexIn(Digits, s[Len(s)]) - 1)

\* A canonical array index: "0", or digits not starting with "0" (the keys of
\* the model are far below 2^32 - 1).
IsArrayIndex(k) ==
    /\ k # <<>>
    /\ \A i \in DOMAIN k : IsDigit(k[i])
    /\ (Len(k) = 1 \/ k[1] # "0")

\* The positions of o in the order Object.entries yields them.
RECURSIVE SortIdx(_, _)
SortIdx(o, todo) ==
    IF todo = {} THEN <<>>
    ELSE LET m == CHOOSE i \in todo :
                    \A j \in todo : StrToNat(o[i].key) <= StrToNat(o[j].key)
         IN  <<m>> \o SortIdx(o, todo \ {m})

ObjEntriesMutInsertion(o) == o

ObjEntries(o) ==
    LET idx == {i \in DOMAIN o : IsArrayIndex(o[i].key)}
        isOther(e) == ~IsArrayIndex(e.key)
        first == SortIdx(o, idx)
    IN  [i \in DOMAIN first |-> o[first[i]]] \o SelectSeq(o, isOther)

\* ---------------------------------------------------------------- Component Store
\* loadComponents: the value of this.components and the diagnostic.
JsonFiles(listing) == LET isJson(f) == EndsWith(f.name, DotJson) IN SelectSeq(listing, isJson)

\* { ...content, filename: file }
WithFilename(obj, name) ==
    [k \in DOMAIN obj \cup {"filename"} |-> IF k = "filename" THEN name ELSE obj[k]]

LoadResultMutPartial(exists, listing) ==
    LET files == JsonFiles(listing)
        firstBad == IF \E i \in DOMAIN files : ~files[i].valid
                    THEN CHOOSE i \in DOMAIN files : ~files[i].valid /\ \A j \in 1..(i-1) : files[j].valid
                    ELSE Len(files) + 1
    IN  IF ~exists THEN [ok |-> FALSE, out |-> "noDir", components |-> <<>>]
        ELSE IF Len(files) = 0 THEN [ok |-> FALSE, out |-> "noJson", components |-> <<>>]
        ELSE IF \E i \in DOMAIN files : ~files[i].valid
             THEN [ok |-> FALSE, out |-> "parseError",
                   components |-> [i \in 1..(firstBad - 1) |-> WithFilename(files[i].obj, files[i].name)]]
        ELSE [ok |-> TRUE, out |-> "none",
              components |-> [i \in DOMAIN files |-> WithFilename(files[i].obj, files[i].name)]]

LoadResultMutNoEmptyCheck(exists, listing) ==
    LET files == JsonFiles(listing)
    IN  IF ~exists THEN [ok |-> FALSE, out |-> "noDir", components |-> <<>>]
        ELSE IF \E i \in DOMAIN files : ~files[i].valid
             THEN [ok |-> FALSE, out |-> "parseError", components |-> <<>>]
        ELSE [ok |-> TRUE, out |-> "none",
              components |-> [i \in DOMAIN files |-> WithFilename(files[i].obj, files[i].name)]]

LoadResult(exists, listing) ==
    LET files == JsonFiles(listing)
    IN  IF ~exists THEN [ok |-> FALSE, out |-> "noDir", components |-> <<>>]
        ELSE IF Len(files) = 0 THEN [ok |-> FALSE, out |-> "noJson", components |-> <<>>]
        ELSE IF \E i \in DOMAIN files : ~files[i].valid
             \* JSON.parse throws inside map: this.components is not assigned
             THEN [ok |-> FALSE, out |-> "parseError", components |-> <<>>]
        ELSE [ok |-> TRUE, out |-> "none",
              components |-> [i \in DOMAIN files |-> WithFilename(files[i].obj, files[i].name)]]

\* ---------------------------------------------------------------- Taxonomy Index
\* [...new Set(seq)]: first occurrences, in order.
RECURSIVE Dedupe(_)
Dedupe(s) ==
    IF s = <<>> THEN <<>>
    ELSE LET init == Dedupe(SubSeq(s, 1, Len(s) - 1))
             last == s[Len(s)]
         IN  IF last \in Range(init) THEN init ELSE Append(init, last)

\* The default sort order: undefined last, strings by code units.
SortLess(a, b) ==
    IF a = Undefined THEN FALSE
    ELSE IF b = Undefined THEN TRUE
    ELSE StrLess(a, b)

RECURSIVE SortInsert(_, _)
SortInsert(sorted, x) ==
    IF sorted = <<>> THEN <<x>>
    ELSE IF SortLess(x, sorted[1]) THEN <<x>> \o sorted
    ELSE <<sorted[1]>> \o SortInsert(Tail(sorted), x)

RECURSIVE Sort(_)
Sort(s) == IF s = <<>> THEN <<>> ELSE SortInsert(Sort(SubSeq(s, 1, Len(s) - 1)), s[Len(s)])

getAvailableTypesMutNoSort(comps) ==
    Dedupe([i \in DOMAIN comps |-> Field(comps[i], "type")])

getAvailableTypes(comps) ==
    Sort(Dedupe([i \in DOMAIN comps |-> Field(comps[i], "type")]))

\* String.prototype.split with a one-character separator.
RECURSIVE Split(_, _)
Split(s, sep) ==
    IF \A i \in DOMAIN s : s[i] # sep THEN <<s>>
    ELSE LET p == CHOOSE i \in DOMAIN s : s[i] = sep /\ \A j \in 1..(i-1) : s[j] # sep
         IN  <<SubSeq(s, 1, p - 1)>> \o Split(SubSeq(s, p + 1, Len(s)), sep)

getAvailableGroups(comps, selectedTypes) ==
    LET inTypes(c) == Field(c, "type") \in Range(selectedTypes) /\ Truthy(Field(c, "group"))
        grouped == SelectSeq(comps, inTypes)
        keys == Dedupe([i \in DOMAIN grouped |->
                          Field(grouped[i], "type") \o <<":">> \o Field(grouped[i], "group")])
    IN  [i \in DOMAIN keys |->
            LET parts == Split(keys[i], ":")
            IN  [type |-> parts[1], group |-> parts[2]]]

UNGROUPED == <<"_","u","n","g","r","o","u","p","e","d">>

\* selectedGroups: null, or the list of chosen pairs.
NoRestriction == [null |-> TRUE, pairs |-> <<>>]
Restriction(pairs) == [null |-> FALSE, pairs |-> pairs]

\* comp passes the group restriction of getComponentsByGroup.
PassesMutNoGroupTest(comp, selectedGroups) ==
    LET type == Field(comp, "type")
        group == Field(comp, "group")
    IN  ~(/\ ~selectedGroups.null
          /\ ~\E i \in DOMAIN selectedGroups.pairs :
                 selectedGroups.pairs[i].type = type /\ selectedGroups.pairs[i].group = group)

Passes(comp, selectedGroups) ==
    LET type == Field(comp, "type")
        group == Field(comp, "group")
    IN  ~(/\ ~selectedGroups.null
          /\ Truthy(group)
          /\ ~\E i \in DOMAIN selectedGroups.pairs :
                 selectedGroups.pairs[i].type = type /\ selectedGroups.pairs[i].group = group)

RECURSIVE BuildStructure(_, _)
BuildStructure(comps, selectedGroups) ==
    IF comps = <<>> THEN <<>>
    ELSE LET structure == BuildStructure(SubSeq(comps, 1, Len(comps) - 1), selectedGroups)
             comp == comps[Len(comps)]
             type == Field(comp, "type")
             key == IF Truthy(Field(comp, "group")) THEN Field(comp, "group") ELSE UNGROUPED
             groups == IF ObjHas(structure, type) THEN ObjGet(structure, type) ELSE <<>>
             bucket == IF ObjHas(groups, key) THEN ObjGet(groups, key) ELSE <<>>
         IN  IF ~Passes(comp, selectedGroups) THEN structure
             ELSE ObjSet(structure, type, ObjSet(groups, key, Append(bucket, comp)))

getComponentsByGroupMutNoTypeFilter(comps, selectedTypes, selectedGroups) ==
    BuildStructure(comps, selectedGroups)

getComponentsByGroup(comps, selectedTypes, selectedGroups) ==
    LET inTypes(c) == Field(c, "type") \in Range(selectedTypes)
    IN  BuildStructure(SelectSeq(comps, inTypes), selectedGroups)


\* ---------------------------------------------------------------- Selection Flow
GroupPrefix == <<"g","r","o","u","p","_">>
CompPrefix == <<"c","o","m","p","_">>

\* The choices of one bucket: the group-level choice of a real group, then one
\* leaf per component.  type, group and index record where a choice was declared.
BucketChoicesMutHeaderAlways(type, groupName, comps) ==
    LET header ==
            <<[kind |-> "group",
               value |-> GroupPrefix \o type \o <<"_">> \o groupName,
               type |-> type, group |-> groupName, index |-> 0, comps |-> comps]>>
        leaves ==
            [i \in DOMAIN comps |->
                [kind |-> "comp",
                 value |-> CompPrefix \o type \o <<"_">> \o groupName \o <<"_">> \o NatToStr(i - 1),
                 type |-> type, group |-> groupName, index |-> i - 1, comps |-> <<comps[i]>>]]
    IN  header \o leaves

BucketChoices(type, groupName, comps) ==
    LET header ==
            IF groupName # UNGROUPED
            THEN <<[kind |-> "group",
                    value |-> GroupPrefix \o type \o <<"_">> \o groupName,
                    type |-> type, group |-> groupName, index |-> 0, comps |-> comps]>>
            ELSE <<>>
        leaves ==
            [i \in DOMAIN comps |->
                [kind |-> "comp",
                 value |-> CompPrefix \o type \o <<"_">> \o groupName \o <<"_">> \o NatToStr(i - 1),
                 type |-> type, group |-> groupName, index |-> i - 1, comps |-> <<comps[i]>>]]
    IN  header \o leaves

RECURSIVE GroupsChoices(_, _)
GroupsChoices(type, entries) ==
    IF entries = <<>> THEN <<>>
    ELSE BucketChoices(type, entries[1].key, entries[1].val) \o GroupsChoices(type, Tail(entries))

RECURSIVE TypesChoices(_, _)
TypesChoices(entries, manyTypes) ==
    IF entries = <<>> THEN <<>>
    ELSE (IF manyTypes
          THEN <<[kind |-> "sep", value |-> <<>>, type |-> entries[1].key,
                  group |-> <<>>, index |-> 0, comps |-> <<>>]>>
          ELSE <<>>)
         \o GroupsChoices(entries[1].key, ObjEntries(entries[1].val))
         \o TypesChoices(Tail(entries), manyTypes)

\* The flattened choice list of the SelectItems prompt.
BuildChoices(structure, selectedTypes) ==
    TypesChoices(ObjEntries(structure), Len(selectedTypes) > 1)

\* Map.get after all the Map.set of the loop: the last declaration of a key wins.
MapHas(choices, kind, key) ==
    \E i \in DOMAIN choices : choices[i].kind = kind /\ choices[i].value = key
MapGet(choices, kind, key) ==
    LET last == CHOOSE i \in DOMAIN choices :
                    /\ choices[i].kind = kind /\ choices[i].value = key
                    /\ \A j \in DOMAIN choices :
                          (choices[j].kind = kind /\ choices[j].value = key) => j <= i
    IN  choices[last].comps

\* The components one confirmed key expands to.
Expand(choices, itemKey) ==
    IF StartsWith(itemKey, GroupPrefix)
    THEN (IF MapHas(choices, "group", itemKey) THEN MapGet(choices, "group", itemKey) ELSE <<>>)
    ELSE IF StartsWith(itemKey, CompPrefix)
    THEN (IF MapHas(choices, "comp", itemKey) THEN MapGet(choices, "comp", itemKey) ELSE <<>>)
    ELSE <<>>

RECURSIVE ExpandAll(_, _)
ExpandAll(choices, selectedItems) ==
    IF selectedItems = <<>> THEN <<>>
    ELSE Expand(choices, selectedItems[1]) \o ExpandAll(choices, Tail(selectedItems))

\* { ...comp, _uniqueId: componentIndex++ }
WithUniqueId(comp, id) ==
    [k \in DOMAIN comp \cup {"uniqueId"} |-> IF k = "uniqueId" THEN id ELSE comp[k]]

FinalizeMutDedupe(choices, selectedItems) ==
    LET all == ExpandAll(choices, selectedItems)
        comps == Dedupe(all)
    IN  [i \in DOMAIN comps |-> WithUniqueId(comps[i], i - 1)]

FinalizeMutPreIncrement(choices, selectedItems) ==
    LET comps == ExpandAll(choices, selectedItems)
    IN  [i \in DOMAIN comps |-> WithUniqueId(comps[i], i)]

\* finalComponents of selectComponentsWithInquirer.
Finalize(choices, selectedItems) ==
    LET comps == ExpandAll(choices, selectedItems)
    IN  [i \in DOMAIN comps |-> WithUniqueId(comps[i], i - 1)]

StoredAfterFinalizeMutInPlace(components, finalComponents) ==
    LET copies(comp) ==
            {j \in DOMAIN finalComponents :
                [k \in DOMAIN finalComponents[j] \ {"uniqueId"} |-> finalComponents[j][k]] = comp}
        last(comp) == CHOOSE j \in copies(comp) : \A l \in copies(comp) : l <= j
    IN  [i \in DOMAIN components |->
            IF copies(components[i]) # {}
            THEN WithUniqueId(components[i], finalComponents[last(components[i])].uniqueId)
            ELSE components[i]]

\* this.components after finalization: { ...comp, _uniqueId } builds a new
\* object for every entry, the stored records are not assigned to.
StoredAfterFinalize(components, finalComponents) == components

\* The values of the checked choices, in the order of the choice list.
RECURSIVE CheckedValues(_, _, _)
CheckedValues(choices, boxes, i) ==
    IF i > Len(choices) THEN <<>>
    ELSE (IF i \in boxes THEN <<choices[i].value>> ELSE <<>>)
         \o CheckedValues(choices, boxes, i + 1)

\* ---------------------------------------------------------------- Output Generator
IsAlnum(c) == IsLower(c) \/ IsUpper(c) \/ IsDigit(c)

\* title.replace(/[^a-zA-Z0-9]/g, '-').toLowerCase()
Sanitize(title) == ToLowerCase([i \in DOMAIN title |-> IF IsAlnum(title[i]) THEN title[i] ELSE "-"])

\* s.replace(/\s+/g, '-'): each maximal run of white space becomes one hyphen.
RECURSIVE CollapseSpaces(_)
CollapseSpaces(s) ==
    IF s = <<>> THEN <<>>
    ELSE IF IsSpaceChar(s[1])
    THEN (IF Len(s) > 1 /\ IsSpaceChar(s[2]) THEN CollapseSpaces(Tail(s))
          ELSE <<"-">> \o CollapseSpaces(Tail(s)))
    ELSE <<s[1]>> \o CollapseSpaces(Tail(s))

\* s.replace(/-+/g, '-'): each maximal run of hyphens becomes one hyphen.
RECURSIVE CollapseHyphens(_)
CollapseHyphens(s) ==
    IF s = <<>> THEN <<>>
    ELSE IF s[1] = "-" /\ Len(s) > 1 /\ s[2] = "-" THEN CollapseHyphens(Tail(s))
    ELSE <<s[1]>> \o CollapseHyphens(Tail(s))

\* String.prototype.trim takes no argument: it trims white space.
RECURSIVE Trim(_)
Trim(s) ==
    IF s = <<>> THEN s
    ELSE IF IsSpaceChar(s[1]) THEN Trim(Tail(s))
    ELSE IF IsSpaceChar(s[Len(s)]) THEN Trim(SubSeq(s, 1, Len(s) - 1))
    ELSE s

generateFileName(title, type) ==
    LET lower == ToLowerCase(title)
        kept(c) == IsLower(c) \/ IsDigit(c) \/ IsSpaceChar(c) \/ c = "-"
        stripped == SelectSeq(lower, kept)
        sanitized == Trim(CollapseHyphens(CollapseSpaces(stripped)))
    IN  sanitized \o <<".">> \o type

uniqueFileNameMutNoId(comp) ==
    Sanitize(comp.title) \o <<".">> \o comp.type

uniqueFileNameMutSlug(comp) ==
    LET plain == generateFileName(comp.title, <<>>)
    IN  SubSeq(plain, 1, Len(plain) - 1) \o <<"-">> \o NatToStr(comp.uniqueId)
        \o <<".">> \o comp.type

\* The file name generateSeparateFiles writes comp to.
uniqueFileName(comp) ==
    IF "uniqueId" \in DOMAIN comp
    THEN Sanitize(comp.title) \o <<"-">> \o NatToStr(comp.uniqueId) \o <<".">> \o comp.type
    ELSE generateFileName(comp.title, comp.type)

SeparateWritesMutTrailingNewline(components) ==
    [i \in DOMAIN components |->
        [name |-> uniqueFileName(components[i]),
         content |-> components[i].content \o <<"\n">>, parts |-> 1]]

\* The writes of generateSeparateFiles, in order.
SeparateWrites(components) ==
    [i \in DOMAIN components |->
        [name |-> uniqueFileName(components[i]), content |-> components[i].content,
         parts |-> 1]]

\* typeGroups of generateBundledFiles.
RECURSIVE TypeGroups(_)
TypeGroups(components) ==
    IF components = <<>> THEN <<>>
    ELSE LET typeGroups == TypeGroups(SubSeq(components, 1, Len(components) - 1))
             comp == components[Len(components)]
             sofar == IF ObjHas(typeGroups, comp.type) THEN ObjGet(typeGroups, comp.type) ELSE <<>>
         IN  ObjSet(typeGroups, comp.type, Append(sofar, comp))

\* `/* ${title} - ${description} ${(ID: n)} */\n${content}`
Chunk(comp) ==
    <<"/","*"," ">> \o comp.title \o <<" ","-"," ">> \o comp.description \o <<" ">>
    \o (IF "uniqueId" \in DOMAIN comp
        THEN <<"(","I","D",":"," ">> \o NatToStr(comp.uniqueId) \o <<")">>
        ELSE <<>>)
    \o <<" ","*","/","\n">> \o comp.content

\* parts.join(sep)
RECURSIVE Join(_, _)
Join(parts, sep) ==
    IF parts = <<>> THEN <<>>
    ELSE IF Len(parts) = 1 THEN parts[1]
    ELSE parts[1] \o sep \o Join(Tail(parts), sep)

bundledContentMutOneNewline(comps) ==
    Join([i \in DOMAIN comps |-> Chunk(comps[i])], <<"\n">>)

bundledContent(comps) ==
    Join([i \in DOMAIN comps |-> Chunk(comps[i])], <<"\n","\n">>)

BundleName(type) == <<"b","u","n","d","l","e",".">> \o type

\* The writes of generateBundledFiles, in order.
BundledWrites(components) ==
    LET entries == ObjEntries(TypeGroups(components))
    IN  [i \in DOMAIN entries |->
            [name |-> BundleName(entries[i].key), content |-> bundledContent(entries[i].val),
             parts |-> Len(entries[i].val)]]

\* fs.writeFileSync for each write in turn: the last writer of a name wins.
RECURSIVE WriteAll(_, _)
WriteAll(fs, writes) ==
    IF writes = <<>> THEN fs
    ELSE LET w == writes[1]
             next == [n \in DOMAIN fs \cup {w.name} |-> IF n = w.name THEN w.content ELSE fs[n]]
         IN  WriteAll(next, Tail(writes))


\* ---------------------------------------------------------------- the build command
VARIABLES
    pc,              \* where run() stands: a prompt it awaits, or how it ended
    dirExists,       \* components/ exists
    listing,         \* fs.readdirSync(componentsDir)
    components,      \* this.components
    selectedTypes,   \* selectComponents: selectedTypes
    availableGroups, \* selectComponents: availableGroups
    selectedGroups,  \* selectComponents: selectedGroups
    structure,       \* selectComponentsWithInquirer: componentStructure
    choices,         \* selectComponentsWithInquirer: choices (with the two maps)
    checked,         \* the positions checked in the last answer of the group or item prompt
    selectedItems,   \* the answer of the item prompt
    selected,        \* run: selected (finalComponents)
    bundle,          \* run: bundle
    distExists,      \* dist/ exists
    dist,            \* the files of dist/: name -> content
    fsLog,           \* the filesystem operations performed, in order
    out,             \* the last diagnostic printed
    issued,          \* the prompts issued so far
    confirmed        \* the prompts that returned a confirmed answer

vars == <<pc, dirExists, listing, components, selectedTypes, availableGroups,
          selectedGroups, structure, choices, checked, selectedItems, selected,
          bundle, distExists, dist, fsLog, out, issued, confirmed>>

Prompts == {"typesPrompt", "groupsPrompt", "itemsPrompt", "bundlePrompt"}
CheckboxPrompts == {"typesPrompt", "groupsPrompt", "itemsPrompt"}

InitOf(cat) ==
    /\ pc = "start"
    /\ dirExists \in BOOLEAN
    /\ listing \in {l \in Listings(cat, MaxFiles) : Distinct(l)}
    /\ (~dirExists => listing = <<>>)
    /\ components = <<>>
    /\ selectedTypes = <<>>
    /\ availableGroups = <<>>
    /\ selectedGroups = NoRestriction
    /\ structure = <<>>
    /\ choices = <<>>
    /\ checked = {}
    /\ selectedItems = <<>>
    /\ selected = <<>>
    /\ bundle = FALSE
    /\ distExists \in BOOLEAN
    /\ dist = <<>>
    /\ fsLog = <<>>
    /\ out = "none"
    /\ issued = {}
    /\ confirmed = {}

\* selectComponentsWithInquirer up to its prompt.
ItemsStage(comps, st, ag, sg) ==
    LET str == getComponentsByGroup(comps, st, sg)
    IN  [pc |-> "itemsPrompt", selectedTypes |-> st, availableGroups |-> ag,
         selectedGroups |-> sg, structure |-> str, choices |-> BuildChoices(str, st)]

\* selectComponents from step 2 to the next prompt.
GroupsStage(comps, st) ==
    LET ag == getAvailableGroups(comps, st)
    IN  IF Len(ag) > 0
        THEN [pc |-> "groupsPrompt", selectedTypes |-> st, availableGroups |-> ag,
              selectedGroups |-> NoRestriction, structure |-> <<>>, choices |-> <<>>]
        ELSE ItemsStage(comps, st, ag, NoRestriction)

\* selectComponents from its start to the first prompt.
TypesStage(comps) ==
    LET types == getAvailableTypes(comps)
        idle(where) == [pc |-> where, selectedTypes |-> <<>>, availableGroups |-> <<>>,
                        selectedGroups |-> NoRestriction, structure |-> <<>>, choices |-> <<>>]
    IN  IF Len(types) = 0 THEN idle("noneSelected")
        \* t.toUpperCase() of the startup line throws on a component without type
        ELSE IF Undefined \in Range(types) THEN idle("crashed")
        ELSE IF Len(types) > 1 THEN idle("typesPrompt")
        ELSE GroupsStage(comps, types)

Advance(n) ==
    /\ pc' = n.pc
    /\ selectedTypes' = n.selectedTypes
    /\ availableGroups' = n.availableGroups
    /\ selectedGroups' = n.selectedGroups
    /\ structure' = n.structure
    /\ choices' = n.choices
    /\ issued' = IF n.pc \in Prompts THEN issued \cup {n.pc} ELSE issued
    /\ out' = CASE n.pc = "noneSelected" -> "noneSelected"
                [] n.pc = "crashed" -> "error"
                [] OTHER -> "none"

\* run, case 'build', up to the first prompt.
Load ==
    /\ pc = "start"
    /\ LET r == LoadResult(dirExists, listing)
       IN  /\ components' = r.components
           /\ IF r.ok
              THEN Advance(TypesStage(r.components))
              ELSE /\ pc' = "loadFailed"
                   /\ out' = r.out
                   /\ UNCHANGED <<selectedTypes, availableGroups, selectedGroups,
                                  structure, choices, issued>>
    /\ UNCHANGED <<dirExists, listing, checked, selectedItems, selected, bundle,
                   distExists, dist, fsLog, confirmed>>

\* The elements of s at the positions in keep, in order.
RECURSIVE Pick(_, _, _)
Pick(s, keep, i) ==
    IF i > Len(s) THEN <<>>
    ELSE (IF i \in keep THEN <<s[i]>> ELSE <<>>) \o Pick(s, keep, i + 1)

\* The type prompt returns a non-empty set of types.
ConfirmTypes ==
    /\ pc = "typesPrompt"
    /\ \E keep \in SUBSET (1..Len(getAvailableTypes(components))) :
          /\ keep # {}
          /\ Advance(GroupsStage(components, Pick(getAvailableTypes(components), keep, 1)))
    /\ confirmed' = confirmed \cup {"typesPrompt"}
    /\ UNCHANGED <<dirExists, listing, components, checked, selectedItems, selected, bundle,
                   distExists, dist, fsLog>>

ConfirmGroupsMutSpecificWins ==
    /\ pc = "groupsPrompt"
    /\ \E keep \in SUBSET (0..Len(availableGroups)) :
          /\ keep # {}
          /\ checked' = keep
          /\ Advance(ItemsStage(components, selectedTypes, availableGroups,
                                IF keep = {0} THEN NoRestriction
                                ELSE Restriction(Pick(availableGroups, keep, 1))))
    /\ confirmed' = confirmed \cup {"groupsPrompt"}
    /\ UNCHANGED <<dirExists, listing, components, selectedItems, selected, bundle,
                   distExists, dist, fsLog>>

\* The group prompt returns a non-empty set of 'all' (position 0) and pairs.
ConfirmGroups ==
    /\ pc = "groupsPrompt"
    /\ \E keep \in SUBSET (0..Len(availableGroups)) :
          /\ keep # {}
          /\ checked' = keep
          /\ Advance(ItemsStage(components, selectedTypes, availableGroups,
                                IF 0 \in keep THEN NoRestriction
                                ELSE Restriction(Pick(availableGroups, keep, 1))))
    /\ confirmed' = confirmed \cup {"groupsPrompt"}
    /\ UNCHANGED <<dirExists, listing, components, selectedItems, selected, bundle,
                   distExists, dist, fsLog>>

Selectable == {i \in DOMAIN choices : choices[i].kind # "sep"}

\* The item prompt returns a non-empty set of checked choices; finalize.
ConfirmItems ==
    /\ pc = "itemsPrompt"
    /\ \E boxes \in SUBSET Selectable :
          /\ boxes # {}
          /\ checked' = boxes
          /\ selectedItems' = CheckedValues(choices, boxes, 1)
          /\ selected' = Finalize(choices, selectedItems')
          /\ components' = StoredAfterFinalize(components, selected')
          /\ IF Len(selected') = 0
             THEN pc' = "noneSelected" /\ out' = "noneSelected" /\ issued' = issued
             ELSE pc' = "bundlePrompt" /\ out' = "none" /\ issued' = issued \cup {"bundlePrompt"}
    /\ confirmed' = confirmed \cup {"itemsPrompt"}
    /\ UNCHANGED <<dirExists, listing, selectedTypes, availableGroups,
                   selectedGroups, structure, choices, bundle, distExists, dist, fsLog>>

RejectEmptyMutAdvance ==
    /\ pc = "typesPrompt"
    /\ Advance(GroupsStage(components, <<>>))
    /\ confirmed' = confirmed \cup {"typesPrompt"}
    /\ UNCHANGED <<dirExists, listing, components, checked, selectedItems, selected, bundle,
                   distExists, dist, fsLog>>

\* A checkbox prompt's validate refuses an empty answer: the prompt stays.
RejectEmpty ==
    /\ pc \in CheckboxPrompts
    /\ out' = "validation"
    /\ UNCHANGED <<pc, dirExists, listing, components, selectedTypes, availableGroups,
                   selectedGroups, structure, choices, checked, selectedItems, selected, bundle,
                   distExists, dist, fsLog, issued, confirmed>>

CancelMutDefaultAnswer ==
    /\ pc = "bundlePrompt"
    /\ dist' = WriteAll(dist, SeparateWrites(selected))
    /\ fsLog' = fsLog \o [i \in DOMAIN selected |->
                             [op |-> "write", name |-> SeparateWrites(selected)[i].name, parts |-> 1]]
    /\ pc' = "done"
    /\ UNCHANGED <<dirExists, listing, components, selectedTypes, availableGroups,
                   selectedGroups, structure, choices, checked, selectedItems, selected, bundle,
                   distExists, out, issued, confirmed>>

CancelMutRestart ==
    /\ pc \in Prompts
    /\ pc' = "start"
    /\ UNCHANGED <<dirExists, listing, components, selectedTypes, availableGroups,
                   selectedGroups, structure, choices, checked, selectedItems, selected, bundle,
                   distExists, dist, fsLog, out, issued, confirmed>>

\* The user aborts a prompt: run() never resumes.
Cancel ==
    /\ pc \in Prompts
    /\ pc' = "cancelled"
    /\ UNCHANGED <<dirExists, listing, components, selectedTypes, availableGroups,
                   selectedGroups, structure, choices, checked, selectedItems, selected, bundle,
                   distExists, dist, fsLog, out, issued, confirmed>>

\* generateFiles: the filesystem operations, in order.
GenerateWrites(components_, bundle_) ==
    IF bundle_ THEN BundledWrites(components_) ELSE SeparateWrites(components_)

\* The bundle prompt returns; generateFiles runs.
AnswerBundle ==
    /\ pc = "bundlePrompt"
    /\ \E b \in BOOLEAN :
          /\ bundle' = b
          /\ LET writes == GenerateWrites(selected, b)
             IN  /\ dist' = WriteAll(dist, writes)
                 /\ fsLog' = fsLog \o (IF distExists THEN <<>> ELSE <<[op |-> "mkdir", name |-> <<>>, parts |-> 0]>>)
                                   \o [i \in DOMAIN writes |->
                                          [op |-> "write", name |-> writes[i].name,
                                           parts |-> writes[i].parts]]
    /\ distExists' = TRUE
    /\ pc' = "done"
    /\ out' = "generated"
    /\ confirmed' = confirmed \cup {"bundlePrompt"}
    /\ UNCHANGED <<dirExists, listing, components, selectedTypes, availableGroups,
                   selectedGroups, structure, choices, checked, selectedItems, selected, issued>>

Next ==
    \/ Load
    \/ ConfirmTypes
    \/ ConfirmGroups
    \/ ConfirmItems
    \/ RejectEmpty
    \/ Cancel
    \/ AnswerBundle

Init == InitOf(Catalog)
Spec == Init /\ [][Next]_vars

\* The same program on a directory of records with "_" and digits in their names.
InitKeys == InitOf(KeysCatalog)
SpecKeys == InitKeys /\ [][Next]_vars

\* The same program on a directory with an empty group name, a ':' in a
\* group name and a type in upper case.
InitEdge == InitOf(EdgeCatalog)
SpecEdge == InitEdge /\ [][Next]_vars

\* ---------------------------------------------------------------- the other commands, and failing writes
MkdirComponents == [op |-> "mkdir", name |-> <<"components">>, parts |-> 0]
MkdirDist == [op |-> "mkdir", name |-> <<>>, parts |-> 0]

\* How the commands end.
ListEnds == {"listed", "listFailed", "listCrashed"}
ReadOnlyEnds == ListEnds \cup {"configShown"}

\* A new process: the constructor's fields and no prompt yet.
FreshProcess ==
    /\ components' = <<>>
    /\ selectedTypes' = <<>>
    /\ availableGroups' = <<>>
    /\ selectedGroups' = NoRestriction
    /\ structure' = <<>>
    /\ choices' = <<>>
    /\ checked' = {}
    /\ selectedItems' = <<>>
    /\ selected' = <<>>
    /\ bundle' = FALSE
    /\ issued' = {}
    /\ confirmed' = {}

InitProjectMutAlwaysMkdir ==
    /\ pc \in {"start", "initDone", "done"}
    /\ FreshProcess
    /\ dirExists' = TRUE
    /\ distExists' = TRUE
    /\ fsLog' = fsLog \o <<MkdirComponents, MkdirDist>>
    /\ out' = "created"
    /\ pc' = "initDone"
    /\ UNCHANGED <<listing, dist>>

\* run, case 'init': as the first command, or as the next command after an
\* init or a build has ended. out tells whether a 'created' line was printed
\* before the closing message.
InitProject ==
    /\ pc \in {"start", "initDone", "done"}
    /\ FreshProcess
    /\ dirExists' = TRUE
    /\ distExists' = TRUE
    /\ fsLog' = fsLog \o (IF dirExists THEN <<>> ELSE <<MkdirComponents>>)
                      \o (IF distExists THEN <<>> ELSE <<MkdirDist>>)
    /\ out' = IF dirExists /\ distExists THEN "initialized" ELSE "created"
    /\ pc' = "initDone"
    /\ UNCHANGED <<listing, dist>>

ListComponentsMutEnsureDist ==
    /\ pc = "start"
    /\ components' = LoadResult(dirExists, listing).components
    /\ pc' = "listed"
    /\ out' = "listed"
    /\ distExists' = TRUE
    /\ fsLog' = fsLog \o (IF distExists THEN <<>> ELSE <<MkdirDist>>)
    /\ UNCHANGED <<dirExists, listing, selectedTypes, availableGroups, selectedGroups,
                   structure, choices, checked, selectedItems, selected, bundle,
                   dist, issued, confirmed>>

\* run, case 'list': load, then print the types in getAvailableTypes order;
\* getTypeColor(type) throws on a component without type.
ListComponents ==
    /\ pc = "start"
    /\ LET r == LoadResult(dirExists, listing)
       IN  /\ components' = r.components
           /\ IF ~r.ok THEN pc' = "listFailed" /\ out' = r.out
              ELSE IF Undefined \in Range(getAvailableTypes(r.components))
                   THEN pc' = "listCrashed" /\ out' = "error"
                   ELSE pc' = "listed" /\ out' = "listed"
    /\ UNCHANGED <<dirExists, listing, selectedTypes, availableGroups, selectedGroups,
                   structure, choices, checked, selectedItems, selected, bundle,
                   distExists, dist, fsLog, issued, confirmed>>

\* run, case 'config': three lines of help.
ShowConfig ==
    /\ pc = "start"
    /\ pc' = "configShown"
    /\ out' = "config"
    /\ UNCHANGED <<dirExists, listing, components, selectedTypes, availableGroups,
                   selectedGroups, structure, choices, checked, selectedItems, selected,
                   bundle, distExists, dist, fsLog, issued, confirmed>>

\* The log entries of the first k writes, and of the attempt that threw.
WriteEntries(writes, k) ==
    [i \in 1..k |-> [op |-> "write", name |-> writes[i].name, parts |-> writes[i].parts]]
FailedEntry(w) == [op |-> "writeFailed", name |-> w.name, parts |-> w.parts]

\* A file that a failed write has opened and truncated.
Truncated(fs, name) == [n \in DOMAIN fs \cup {name} |-> IF n = name THEN <<>> ELSE fs[n]]

GenerateFailsMutContinue ==
    /\ pc = "bundlePrompt"
    /\ \E b \in BOOLEAN :
          /\ bundle' = b
          /\ LET writes == GenerateWrites(selected, b)
             IN  \E k \in 0..(Len(writes) - 1) :
                    /\ dist' = WriteAll(WriteAll(dist, SubSeq(writes, 1, k)),
                                        SubSeq(writes, k + 2, Len(writes)))
                    /\ fsLog' = fsLog \o (IF distExists THEN <<>> ELSE <<MkdirDist>>)
                                      \o WriteEntries(writes, k)
                                      \o <<FailedEntry(writes[k + 1])>>
                                      \o [i \in 1..(Len(writes) - k - 1) |->
                                             [op |-> "write", name |-> writes[k + 1 + i].name,
                                              parts |-> writes[k + 1 + i].parts]]
    /\ distExists' = TRUE
    /\ pc' = "failed"
    /\ out' = "error"
    /\ confirmed' = confirmed \cup {"bundlePrompt"}
    /\ UNCHANGED <<dirExists, listing, components, selectedTypes, availableGroups,
                   selectedGroups, structure, choices, checked, selectedItems, selected, issued>>

\* The bundle prompt returns and a filesystem call of generateFiles throws:
\* mkdirSync (k = -1), or the writeFileSync after k writes, which leaves its
\* file untouched or truncated. The exception leaves forEach, generateFiles
\* and run, and main's catch prints it and exits.
GenerateFails ==
    /\ pc = "bundlePrompt"
    /\ \E b \in BOOLEAN :
          /\ bundle' = b
          /\ LET writes == GenerateWrites(selected, b)
             IN  \E k \in (IF distExists THEN 0 ELSE -1)..(Len(writes) - 1) :
                    IF k = -1
                    THEN UNCHANGED <<dist, fsLog, distExists>>
                    ELSE /\ distExists' = TRUE
                         /\ \E truncate \in BOOLEAN :
                               dist' = IF truncate
                                       THEN Truncated(WriteAll(dist, SubSeq(writes, 1, k)),
                                                      writes[k + 1].name)
                                       ELSE WriteAll(dist, SubSeq(writes, 1, k))
                         /\ fsLog' = fsLog \o (IF distExists THEN <<>> ELSE <<MkdirDist>>)
                                           \o WriteEntries(writes, k)
                                           \o <<FailedEntry(writes[k + 1])>>
    /\ pc' = "failed"
    /\ out' = "error"
    /\ confirmed' = confirmed \cup {"bundlePrompt"}
    /\ UNCHANGED <<dirExists, listing, components, selectedTypes, availableGroups,
                   selectedGroups, structure, choices, checked, selectedItems, selected, issued>>

\* process.exit(1) of main's catch; a command that returns exits with 0.
ExitStatus ==
    IF pc \in {"crashed", "listCrashed", "failed"} THEN 1 ELSE 0

\* run: the switch over the command, with filesystem calls that may throw.
NextCommands ==
    \/ Next
    \/ InitProject
    \/ ListComponents
    \/ ShowConfig
    \/ GenerateFails

CommandsCatalog == {FileA, FileB, FileD, FileN, FileBad}
InitCommands == InitOf(CommandsCatalog)
SpecCommands == InitCommands /\ [][NextCommands]_vars



\* ---------------------------------------------------------------- claims
\* The names written by the run, in order.
WrittenNames ==
    LET isWrite(e) == e.op = "write"
        ws == SelectSeq(fsLog, isWrite)
    IN  [i \in DOMAIN ws |-> ws[i].name]

SeparateDone == pc = "done" /\ ~bundle
BundleDone == pc = "done" /\ bundle

\* C1: in separate mode any two distinct entries of the finalized selection
\* are written under different file names, so there are as many files as
\* selected entries and each file holds the content of its own entry.
C1_SeparateNamesInjective ==
    SeparateDone =>
        /\ Len(WrittenNames) = Len(selected)
        /\ \A i, j \in DOMAIN WrittenNames : i # j => WrittenNames[i] # WrittenNames[j]
        /\ Cardinality(DOMAIN dist) = Len(selected)
        /\ \A i \in DOMAIN selected : dist[WrittenNames[i]] = selected[i].content

\* C1 witness: a separate-mode run whose selection holds two different
\* components with the same title and type, and one component twice.
C1_Witness ==
    /\ SeparateDone
    /\ \E i, j \in DOMAIN selected :
          /\ selected[i].filename # selected[j].filename
          /\ selected[i].title = selected[j].title
          /\ selected[i].type = selected[j].type
    /\ \E i, j \in DOMAIN selected : i # j /\ selected[i].filename = selected[j].filename

\* slug of the specification: lowercase, strip what is outside [a-z0-9\s-],
\* white-space runs to one hyphen, hyphen runs to one hyphen, trim hyphens.
RECURSIVE TrimHyphens(_)
TrimHyphens(s) ==
    IF s = <<>> THEN s
    ELSE IF s[1] = "-" THEN TrimHyphens(Tail(s))
    ELSE IF s[Len(s)] = "-" THEN TrimHyphens(SubSeq(s, 1, Len(s) - 1))
    ELSE s

SpecSlug(title) ==
    LET kept(c) == IsLower(c) \/ IsDigit(c) \/ IsSpaceChar(c) \/ c = "-"
    IN  TrimHyphens(CollapseHyphens(CollapseSpaces(SelectSeq(ToLowerCase(title), kept))))

\* C2 as stated: the separate-mode file name of an entry is
\* slug(title) + '-' + sequenceId + '.' + type.
C2_NameIsSlug ==
    SeparateDone =>
        \A i \in DOMAIN selected :
            WrittenNames[i] = SpecSlug(selected[i].title) \o <<"-">>
                              \o NatToStr(selected[i].uniqueId) \o <<".">> \o selected[i].type

\* C2 amended: the separate-mode file name of an entry is its title with every
\* character outside [a-zA-Z0-9] replaced by one hyphen (nothing collapsed,
\* nothing trimmed) and lowercased, then '-' sequenceId '.' type.
C2_NameIsReplaced ==
    SeparateDone =>
        \A i \in DOMAIN selected :
            LET title == selected[i].title
                name == WrittenNames[i]
                rest == <<"-">> \o NatToStr(selected[i].uniqueId) \o <<".">> \o selected[i].type
            IN  /\ Len(name) = Len(title) + Len(rest)
                /\ SubSeq(name, Len(title) + 1, Len(name)) = rest
                /\ \A k \in DOMAIN title :
                      name[k] = IF IsAlnum(title[k]) THEN LowerChar(title[k]) ELSE "-"

\* C2 witness: a separate-mode run that wrote an entry whose title has
\* punctuation, consecutive spaces and leading and trailing non-alphanumerics.
C2_Witness ==
    /\ SeparateDone
    /\ \E i \in DOMAIN selected :
          /\ selected[i].title = <<"-","A"," "," ","b","!">>
          /\ WrittenNames[i] = <<"-","a","-","-","b","-","-">> \o NatToStr(i - 1) \o <<".","j","s">>


ItemsConfirmed == "itemsPrompt" \in confirmed

\* The positions of the finalized list that hold the component of file f.
EntriesOf(f) == {p \in DOMAIN selected : selected[p].filename = f}

\* The components key k of the confirmed answer resolves to: those of the
\* last choice declared with that key.
ResolvedBy(k) ==
    LET key == selectedItems[k]
        decl == {i \in DOMAIN choices : choices[i].kind # "sep" /\ choices[i].value = key}
        last == CHOOSE i \in decl : \A j \in decl : j <= i
    IN  choices[last].comps

HoldsFile(comps, f) == \E i \in DOMAIN comps : comps[i].filename = f

StructureBuilt == "itemsPrompt" \in issued

\* The bucket of structure for type t and group key g (empty when absent).
BucketOf(t, g) ==
    IF ObjHas(structure, t) /\ ObjHas(ObjGet(structure, t), g)
    THEN ObjGet(ObjGet(structure, t), g)
    ELSE <<>>

\* C4: a component without group whose type is selected is in the ungrouped
\* bucket of its type, whatever selectedGroups is; only a component with a
\* group can be missing from structure.
C4_UngroupedNeverFiltered ==
    StructureBuilt =>
        \A i \in DOMAIN components :
            LET comp == components[i]
                present == \E e \in DOMAIN structure : \E b \in DOMAIN structure[e].val :
                               comp \in Range(structure[e].val[b].val)
            IN  /\ (Field(comp, "group") = Undefined /\ comp.type \in Range(selectedTypes))
                   => comp \in Range(BucketOf(comp.type, UNGROUPED))
                /\ (comp.type \in Range(selectedTypes) /\ ~present)
                   => Field(comp, "group") # Undefined

\* C4 witness: a group restriction that holds no pair of the type of a
\* selected component without group.
C4_Witness ==
    /\ StructureBuilt
    /\ ~selectedGroups.null
    /\ \E i \in DOMAIN components :
          /\ Field(components[i], "group") = Undefined
          /\ components[i].type \in Range(selectedTypes)
          /\ \A k \in DOMAIN selectedGroups.pairs :
                selectedGroups.pairs[k].type # components[i].type
          /\ components[i] \in Range(BucketOf(components[i].type, UNGROUPED))

\* The entries of the finalized list of type t, in selection order.
SelectedOfType(t) == LET isT(c) == c.type = t IN SelectSeq(selected, isT)

\* The comment line of the claim, a newline, the raw content.
ClaimedChunk(c) ==
    <<"/","*"," ">> \o c.title \o <<" ","-"," ">> \o c.description
    \o <<" ","(","I","D",":"," ">> \o NatToStr(c.uniqueId) \o <<")"," ","*","/">>
    \o <<"\n">> \o c.content

\* Chunks separated by exactly one blank line, nothing after the last.
RECURSIVE ClaimedBundle(_)
ClaimedBundle(cs) ==
    IF cs = <<>> THEN <<>>
    ELSE IF Len(cs) = 1 THEN ClaimedChunk(cs[1])
    ELSE ClaimedBundle(SubSeq(cs, 1, Len(cs) - 1)) \o <<"\n","\n">> \o ClaimedChunk(cs[Len(cs)])

\* '/* A - da (ID: 0) */\nx\n\n/* B - db (ID: 1) */\ny'
ExampleBundle ==
    <<"/","*"," ","A"," ","-"," ","d","a"," ","(","I","D",":"," ","0",")"," ","*","/","\n","x",
      "\n","\n",
      "/","*"," ","B"," ","-"," ","d","b"," ","(","I","D",":"," ","1",")"," ","*","/","\n","y">>

ExampleSelected ==
    /\ Len(selected) = 2
    /\ selected[1].filename = FileA.name
    /\ selected[2].filename = FileB.name

\* C5: in bundle mode bundle.<type> holds one chunk per selected entry of
\* the type, in selection order, separated by one blank line; for A/da/x and
\* B/db/y with ids 0 and 1 it is the text of the example.
C5_BundleContent ==
    BundleDone =>
        /\ \A i \in DOMAIN selected :
              /\ BundleName(selected[i].type) \in DOMAIN dist
              /\ dist[BundleName(selected[i].type)] = ClaimedBundle(SelectedOfType(selected[i].type))
        /\ ExampleSelected => dist[BundleName(Css)] = ExampleBundle

\* C5 witness: the bundle-mode run of the example.
C5_Witness ==
    /\ BundleDone
    /\ ExampleSelected
    /\ DOMAIN dist = {BundleName(Css)}

\* The distinct types of the finalized list, in the order of first occurrence.
FirstOccurrenceTypes == Dedupe([i \in DOMAIN selected |-> selected[i].type])

\* The number of chunks over all files written.
RECURSIVE SumParts(_)
SumParts(log) == IF log = <<>> THEN 0 ELSE log[1].parts + SumParts(Tail(log))

\* C6 as stated: in bundle mode one file per distinct type, written in the
\* order in which the types first occur in the selection, and as many chunks
\* as selected entries.
C6_BundleOrder ==
    BundleDone =>
        /\ WrittenNames = [i \in DOMAIN FirstOccurrenceTypes |-> BundleName(FirstOccurrenceTypes[i])]
        /\ SumParts(fsLog) = Len(selected)


\* Every prompt the run issued has returned a confirmed answer, the item and
\* the bundle prompt among them, and a stage without prompt was one the code
\* passes without asking (one type only, no group).
AllAnswered ==
    /\ {"itemsPrompt", "bundlePrompt"} \subseteq confirmed
    /\ issued \subseteq confirmed
    /\ "typesPrompt" \notin confirmed =>
          Cardinality({components[i].type : i \in DOMAIN components}) < 2
    /\ "groupsPrompt" \notin confirmed =>
          \A i \in DOMAIN components :
              components[i].type \in Range(selectedTypes) => ~Truthy(Field(components[i], "group"))

\* C7: nothing is created or written before every prompt of the run has
\* returned a confirmed answer; a cancelled prompt ends the flow there, with
\* the filesystem as it was and no later step.
C7_NoOutputBeforeAnswers ==
    /\ []((fsLog # <<>> \/ dist # <<>>) => AllAnswered)
    /\ [][(fsLog' # fsLog \/ dist' # dist \/ distExists' # distExists)
            => (pc = "bundlePrompt" /\ AllAnswered')]_vars
    /\ [](pc = "cancelled" => (fsLog = <<>> /\ dist = <<>>))
    /\ [][pc # "cancelled"]_vars

\* C7 witness: the bundle prompt was cancelled after the three checkbox
\* prompts had been confirmed.
C7_Witness ==
    /\ pc = "cancelled"
    /\ confirmed = {"typesPrompt", "groupsPrompt", "itemsPrompt"}
    /\ issued = Prompts
    /\ Len(selected) > 0
    /\ fsLog = <<>>

\* The three load failures, read off the directory.
HasJsonName(f) == Len(f.name) >= 5 /\ SubSeq(f.name, Len(f.name) - 4, Len(f.name)) = <<".","j","s","o","n">>
NoJsonFile == \A i \in DOMAIN listing : ~HasJsonName(listing[i])
BadJsonFile == \E i \in DOMAIN listing : HasJsonName(listing[i]) /\ ~listing[i].valid
LoadFails == ~dirExists \/ NoJsonFile \/ BadJsonFile

\* C8: a missing directory, a directory without *.json file, an unparsable
\* file and an empty selection each end the build with a diagnostic: no prompt
\* follows, dist/ is not created, nothing is written.
C8_FailureTouchesNothing ==
    /\ [](pc # "start" =>
            /\ LoadFails <=> pc = "loadFailed"
            /\ pc = "loadFailed" =>
                  /\ out = IF ~dirExists THEN "noDir"
                           ELSE IF NoJsonFile THEN "noJson" ELSE "parseError"
                  /\ issued = {} /\ confirmed = {}
                  /\ fsLog = <<>> /\ dist = <<>>
            /\ pc = "noneSelected" =>
                  (out = "noneSelected" /\ fsLog = <<>> /\ dist = <<>>))
    /\ [][pc \notin {"loadFailed", "noneSelected"}]_vars

\* C8 witness: the build ended on a directory that holds a file, but none
\* named *.json.
C8_Witness ==
    /\ pc = "loadFailed"
    /\ out = "noJson"
    /\ dirExists
    /\ Len(listing) > 0
    /\ ~distExists

\* C9: when one file does not parse, load fails and the builder holds no
\* component, none of the files before the failing one either.
C9_LoadAllOrNothing ==
    (pc # "start" /\ dirExists /\ BadJsonFile) =>
        /\ pc = "loadFailed"
        /\ out = "parseError"
        /\ components = <<>>

\* C9 witness: a failed load whose directory lists a good record before the
\* unparsable file.
C9_Witness ==
    /\ pc = "loadFailed"
    /\ \E i, j \in DOMAIN listing :
          /\ i < j
          /\ HasJsonName(listing[i]) /\ listing[i].valid
          /\ HasJsonName(listing[j]) /\ ~listing[j].valid

RequiredFields == {"title", "description", "type", "content"}

\* C10 as stated: after a successful load every component has the required
\* fields and a non-empty type; a record without one of them makes load fail.
C10_LoadedHaveFields ==
    (pc \notin {"start", "loadFailed"}) =>
        \A i \in DOMAIN components :
            /\ RequiredFields \subseteq DOMAIN components[i]
            /\ components[i].type # <<>>

\* The bijections of a list's positions: its reorderings.
Perms(n) == {p \in [1..n -> 1..n] : \A i, j \in 1..n : i # j => p[i] # p[j]}

Loaded == pc \notin {"start", "loadFailed"}

\* C11: getAvailableTypes returns every type value of the loaded components
\* once, the strings in strictly ascending code-unit order (a missing type,
\* which the default sort puts after every string, last), and returns the
\* same list for every reordering of the components.
C11_TypesSortedDistinctStable ==
    Loaded =>
        LET types == getAvailableTypes(components)
        IN  /\ Range(types) = {Field(components[i], "type") : i \in DOMAIN components}
            /\ \A i, j \in DOMAIN types :
                  i < j => /\ types[i] # types[j]
                           /\ types[i] # Undefined
                           /\ types[j] # Undefined => StrLess(types[i], types[j])
            /\ \A p \in Perms(Len(components)) :
                  getAvailableTypes([i \in DOMAIN components |-> components[p[i]]]) = types

\* C11 witness: a loaded list in which a type occurs twice and a larger type
\* comes before a smaller one.
C11_Witness ==
    /\ Loaded
    /\ \E i, j \in DOMAIN components :
          i # j /\ Field(components[i], "type") = Field(components[j], "type")
    /\ \E i, j \in DOMAIN components :
          /\ i < j
          /\ Field(components[i], "type") # Undefined
          /\ Field(components[j], "type") # Undefined
          /\ StrLess(Field(components[j], "type"), Field(components[i], "type"))

\* The stages behind the type prompt, behind the group prompt and behind
\* the item prompt.
PastTypes == {"groupsPrompt", "itemsPrompt", "bundlePrompt", "done"}
PastGroups == {"itemsPrompt", "bundlePrompt", "done"}
PastItems == {"bundlePrompt", "done"}

\* C12: the flow is never past the type, group or item stage with an empty
\* set of selected types, groups or items; an empty answer is refused with
\* the validation message while the same prompt stays active: the refusal
\* ends nothing, issues no prompt anew and touches no file.
C12_EmptyRejected ==
    /\ [](/\ pc \in PastTypes => Len(selectedTypes) > 0
          /\ pc \in PastGroups => (selectedGroups.null \/ Len(selectedGroups.pairs) > 0)
          /\ pc \in PastItems => (Len(selectedItems) > 0 /\ Len(selected) > 0)
          /\ out = "validation" => pc \in CheckboxPrompts \cup {"cancelled"})
    /\ [][(out' = "validation" /\ out # "validation") =>
              /\ pc \in CheckboxPrompts
              /\ UNCHANGED <<pc, issued, confirmed, selectedTypes, selectedGroups,
                             selectedItems, selected, fsLog, dist>>]_vars

\* C12 witness: an empty answer was refused at the group prompt, after the
\* type prompt had been confirmed.
C12_Witness ==
    /\ pc = "groupsPrompt"
    /\ out = "validation"
    /\ "typesPrompt" \in confirmed

\* What one init run may do: both directories exist afterwards, one mkdir
\* for each directory that was absent and none for one that existed, and
\* the files of components/ and dist/ as they were.
InitStep ==
    LET made == SubSeq(fsLog', Len(fsLog) + 1, Len(fsLog'))
    IN  /\ dirExists' /\ distExists'
        /\ Len(fsLog') >= Len(fsLog) /\ SubSeq(fsLog', 1, Len(fsLog)) = fsLog
        /\ made = (IF dirExists THEN <<>> ELSE <<MkdirComponents>>)
                  \o (IF distExists THEN <<>> ELSE <<MkdirDist>>)
        /\ listing' = listing
        /\ dist' = dist

\* An init run directly after an init run.
SecondInit == pc = "initDone" /\ pc' = "initDone"

\* C13 as stated: init creates a directory only when it is absent and leaves
\* the contents alone; a second run directly after a first creates nothing,
\* changes nothing and reports that the directories already exist.
C13_InitReportsExisting ==
    /\ [][pc' = "initDone" => InitStep]_vars
    /\ [][SecondInit => (/\ UNCHANGED <<dirExists, distExists, listing, dist, fsLog>>
                         /\ out' = "alreadyExist")]_vars

\* C13 amended: as stated, but the second run prints no line about the
\* directories: its only report is the closing message of every init run.
C13_InitIdempotent ==
    /\ [][pc' = "initDone" => InitStep]_vars
    /\ [][SecondInit => (/\ UNCHANGED <<dirExists, distExists, listing, dist, fsLog>>
                         /\ out' = "initialized")]_vars
    /\ [](out # "alreadyExist")

\* C13 witness: init has created components/ and a later init run has
\* printed the closing message alone.
C13_Witness ==
    /\ pc = "initDone"
    /\ out = "initialized"
    /\ \E i \in DOMAIN fsLog : fsLog[i] = MkdirComponents

\* C13 witness of kept contents: init ran after a build that wrote files.
C13_WitnessContents ==
    /\ pc = "initDone"
    /\ dist # <<>>
    /\ Len(listing) > 0

\* The write attempts of the log: completed writes and the one that threw.
Attempts ==
    LET isAttempt(e) == e.op \in {"write", "writeFailed"}
    IN  SelectSeq(fsLog, isAttempt)

\* C14: generation writes one file after the other in the order of the
\* selection (separate) or of the type groups (bundle). When a write throws,
\* the writes before it stay on disk with their content, the failed attempt
\* is the last filesystem call of the run, the error is printed and the
\* process exits with status 1; nothing follows.
C14_FailFastNoRollback ==
    /\ [](pc \in {"done", "failed"} =>
            LET writes == GenerateWrites(selected, bundle)
                n == Len(WrittenNames)
            IN  /\ n <= Len(writes)
                /\ \A i \in 1..n : /\ WrittenNames[i] = writes[i].name
                                   /\ Attempts[i].op = "write"
                                   /\ dist[writes[i].name] = writes[i].content
                /\ pc = "done" => (n = Len(writes) /\ Len(Attempts) = n /\ ExitStatus = 0)
                /\ pc = "failed" =>
                      /\ n < Len(writes)
                      /\ Len(Attempts) <= n + 1
                      /\ Len(Attempts) = n + 1 =>
                            /\ Attempts[n + 1] = FailedEntry(writes[n + 1])
                            /\ fsLog[Len(fsLog)] = Attempts[n + 1]
                      /\ Len(Attempts) = n => fsLog = <<>>
                      /\ out = "error"
                      /\ ExitStatus = 1)
    /\ [][pc # "failed"]_vars

\* C14 witness: a write threw after one file had been written and with a
\* further write still to come.
C14_Witness ==
    /\ pc = "failed"
    /\ Len(WrittenNames) = 1
    /\ Len(GenerateWrites(selected, bundle)) >= 3
    /\ dist[WrittenNames[1]] = GenerateWrites(selected, bundle)[1].content

\* C15: a list run and a config run issue no prompt, create no directory and
\* write no file, whether the load fails, the listing throws or all is
\* printed; the directories are as before the run and nothing follows.
C15_ListConfigReadOnly ==
    /\ [](pc \in ReadOnlyEnds =>
            /\ fsLog = <<>> /\ dist = <<>>
            /\ issued = {} /\ confirmed = {})
    /\ [][pc' \in ReadOnlyEnds =>
            UNCHANGED <<dirExists, listing, distExists, dist, fsLog, issued, confirmed>>]_vars
    /\ [][pc \notin ReadOnlyEnds]_vars

\* C15 witness: list has printed a directory with a grouped component while
\* dist/ does not exist.
C15_Witness ==
    /\ pc = "listed"
    /\ ~distExists
    /\ \E i \in DOMAIN components : Truthy(Field(components[i], "group"))

\* C16: the entry at position i (from 0) of the finalized list carries
\* _uniqueId i: the ids are pairwise distinct and are exactly 0..n-1.
C16_IdsArePositions ==
    pc \in PastItems =>
        /\ \A i \in DOMAIN selected : selected[i].uniqueId = i - 1
        /\ \A i, j \in DOMAIN selected : i # j => selected[i].uniqueId # selected[j].uniqueId
        /\ {selected[i].uniqueId : i \in DOMAIN selected} = 0..(Len(selected) - 1)

\* C16 witness: a finalized list of a group with two components and a leaf,
\* in which one component occurs twice.
C16_Witness ==
    /\ pc \in PastItems
    /\ Len(selectedItems) = 2
    /\ Len(selected) = 3
    /\ \E i, j \in DOMAIN selected : i # j /\ selected[i].filename = selected[j].filename

\* The components of the checked choices, choice by choice from position i on:
\* the whole bucket of a group-level choice, the one component of a leaf.
RECURSIVE DeclaredExpansion(_)
DeclaredExpansion(i) ==
    IF i > Len(choices) THEN <<>>
    ELSE (IF i \in checked THEN choices[i].comps ELSE <<>>) \o DeclaredExpansion(i + 1)

\* An entry of the finalized list without its id.
WithoutId(entry) == [k \in DOMAIN entry \ {"uniqueId"} |-> entry[k]]

\* C17 as stated: the finalized list is the expansion of the checked choices
\* in the order of the choice list, a group-level choice giving the components
\* of its own bucket in bucket order and a leaf its own component, so its
\* length is the sum of the sizes of the checked buckets plus the number of
\* checked leaves.
C17_ExpandsChosenChoices ==
    pc \in PastItems =>
        /\ Len(selected) = Len(DeclaredExpansion(1))
        /\ \A i \in DOMAIN selected : WithoutId(selected[i]) = DeclaredExpansion(1)[i]

\* C18: at the item prompt the restriction is null when the chosen types have
\* no group (the group prompt is then never issued) and when the confirmed
\* answer of the group prompt holds 'all' (position 0), alone or with pairs;
\* otherwise it is the list of the pairs checked, each once.
C18_EffectiveRestriction ==
    pc = "itemsPrompt" =>
        /\ availableGroups = getAvailableGroups(components, selectedTypes)
        /\ "groupsPrompt" \in issued <=> Len(availableGroups) > 0
        /\ "groupsPrompt" \notin issued => selectedGroups = NoRestriction
        /\ "groupsPrompt" \in issued =>
              /\ "groupsPrompt" \in confirmed
              /\ checked # {} /\ checked \subseteq 0..Len(availableGroups)
              /\ 0 \in checked => selectedGroups = NoRestriction
              /\ 0 \notin checked =>
                    /\ ~selectedGroups.null
                    /\ Len(selectedGroups.pairs) = Cardinality(checked)
                    /\ Range(selectedGroups.pairs) = {availableGroups[i] : i \in checked}

\* C18 witness: 'all' was confirmed together with a specific group.
C18_Witness ==
    /\ pc = "itemsPrompt"
    /\ "groupsPrompt" \in confirmed
    /\ 0 \in checked
    /\ Cardinality(checked) > 1
    /\ selectedGroups.null

\* C19 as stated: once the load has succeeded, with fewer than two distinct
\* types no type prompt is issued and the flow goes on with all types
\* selected; with two or more the type prompt is issued, and behind it the
\* selected types are a non-empty part of the available types.
C19_SelectTypes ==
    Loaded =>
        LET types == getAvailableTypes(components)
        IN  /\ Len(types) < 2 => ("typesPrompt" \notin issued /\ selectedTypes = types)
            /\ Len(types) >= 2 => "typesPrompt" \in issued
            /\ pc \in PastTypes =>
                  /\ Len(selectedTypes) > 0
                  /\ Range(selectedTypes) \subseteq Range(types)

\* The (type, group) pair of a component.
PairOf(comp) == [type |-> Field(comp, "type"), group |-> Field(comp, "group")]

\* C20 as stated: availableGroups holds, each once, exactly the pairs of the
\* components whose type is selected and that have a group, the empty string
\* counting as a group; no pair of another type.
C20_GroupsExact ==
    pc \in {"groupsPrompt", "itemsPrompt"} =>
        /\ Range(availableGroups) =
              {PairOf(components[i]) :
                  i \in {j \in DOMAIN components :
                            /\ Field(components[j], "type") \in Range(selectedTypes)
                            /\ "group" \in DOMAIN components[j]}}
        /\ \A i, j \in DOMAIN availableGroups :
              i # j => availableGroups[i] # availableGroups[j]

\* The bucket key of a component: its group, or the sentinel when it has
\* none (no group, or the empty string).
KeyOf(comp) == IF Truthy(Field(comp, "group")) THEN Field(comp, "group") ELSE UNGROUPED

\* The loaded components that survive the selection of types and groups, in
\* loaded order: the type is selected and, under a restriction, a component
\* with a group has its pair among the selected groups.
Survivors ==
    LET survives(c) ==
            /\ Field(c, "type") \in Range(selectedTypes)
            /\ \/ selectedGroups.null
               \/ ~Truthy(Field(c, "group"))
               \/ \E k \in DOMAIN selectedGroups.pairs :
                     selectedGroups.pairs[k] = [type |-> c.type, group |-> c.group]
    IN  SelectSeq(components, survives)

\* The number of components in all buckets of structure.
RECURSIVE SumNat(_)
SumNat(ns) == IF ns = <<>> THEN 0 ELSE ns[1] + SumNat(Tail(ns))
BucketSizes(groups) == [b \in DOMAIN groups |-> Len(groups[b].val)]
StructureSize == SumNat([e \in DOMAIN structure |-> SumNat(BucketSizes(structure[e].val))])

\* C21: each bucket of structure holds exactly the surviving components of
\* its type and group key, in loaded order; no bucket is empty and the
\* buckets together hold each surviving component once and nothing else.
C21_StablePartition ==
    pc = "itemsPrompt" =>
        /\ \A e \in DOMAIN structure : \A b \in DOMAIN structure[e].val :
              LET inBucket(c) == c.type = structure[e].key /\ KeyOf(c) = structure[e].val[b].key
              IN  /\ structure[e].val[b].val = SelectSeq(Survivors, inBucket)
                  /\ structure[e].val[b].val # <<>>
        /\ \A i \in DOMAIN Survivors :
              Survivors[i] \in Range(BucketOf(Survivors[i].type, KeyOf(Survivors[i])))
        /\ StructureSize = Len(Survivors)
        /\ \A e, f \in DOMAIN structure : e # f => structure[e].key # structure[f].key
        /\ \A e \in DOMAIN structure : \A b, c \in DOMAIN structure[e].val :
              b # c => structure[e].val[b].key # structure[e].val[c].key

\* C21 witness: under a restriction that drops a grouped component, a bucket
\* holds two components.
C21_Witness ==
    /\ pc = "itemsPrompt"
    /\ ~selectedGroups.null
    /\ Len(Survivors) < Len(components)
    /\ \E e \in DOMAIN structure : \E b \in DOMAIN structure[e].val :
          Len(structure[e].val[b].val) >= 2

\* Two type strings that differ at most in letter case.
SameTypeKey(t, u) == ToLowerCase(t) = ToLowerCase(u)

\* C22 as stated: types that differ only in letter case are one type: one
\* entry of availableTypes, one type entry of structure, one bundle file, and
\* the same (lowercase) extension in separate mode.
C22_TypeCaseInsensitive ==
    Loaded =>
        /\ \A t, u \in Range(getAvailableTypes(components)) : SameTypeKey(t, u) => t = u
        /\ \A e, f \in DOMAIN structure :
              SameTypeKey(structure[e].key, structure[f].key) => e = f
        /\ BundleDone =>
              /\ \A i \in DOMAIN selected :
                    BundleName(ToLowerCase(selected[i].type)) \in Range(WrittenNames)
              /\ \A m, n \in DOMAIN WrittenNames :
                    SameTypeKey(WrittenNames[m], WrittenNames[n]) => m = n
        /\ SeparateDone =>
              \A i \in DOMAIN selected :
                  EndsWith(WrittenNames[i], <<".">> \o ToLowerCase(selected[i].type))

\* The position of the build flow: the stage it waits in, or past the last.
StageRank(p) ==
    CASE p = "start" -> 0
      [] p = "typesPrompt" -> 1
      [] p = "groupsPrompt" -> 2
      [] p = "itemsPrompt" -> 3
      [] p = "bundlePrompt" -> 4
      [] OTHER -> 5

\* How a build run ends.
BuildEnds == {"loadFailed", "crashed", "noneSelected", "cancelled", "done", "failed"}

\* C23: the build flow only moves forward through load, the type, group and
\* item prompts, the bundle question and generation: a prompt is issued only
\* when the flow reaches it, is confirmed while the flow waits in it and not
\* again, files are written only by the step that ends the run, and after
\* the run has ended or was cancelled no step follows.
C23_StrictlySequential ==
    /\ [][pc' # pc => StageRank(pc') > StageRank(pc)]_vars
    /\ [][pc \notin BuildEnds]_vars
    /\ [][/\ issued \subseteq issued' /\ confirmed \subseteq confirmed'
          /\ issued' \ issued \subseteq {pc'}
          /\ confirmed' \ confirmed \subseteq {pc}
          /\ pc \in confirmed' \ confirmed => pc' # pc
          /\ (fsLog' # fsLog \/ dist' # dist) => (pc = "bundlePrompt" /\ pc' \in BuildEnds)]_vars
    /\ [](/\ \A p \in issued : StageRank(p) <= StageRank(pc)
          /\ confirmed \subseteq issued
          /\ \A p \in issued \ confirmed : p = pc \/ pc = "cancelled"
          /\ (selectedTypes # <<>> \/ structure # <<>>) => components # <<>>
          /\ selected # <<>> => "itemsPrompt" \in confirmed
          /\ pc = "done" => {"itemsPrompt", "bundlePrompt"} \subseteq confirmed)

\* C23 witness: a run that went through all four prompts and generated.
C23_Witness ==
    /\ pc = "done"
    /\ issued = Prompts
    /\ confirmed = Prompts

\* The positions of the choices of one kind.
ChoicesOfKind(kind) == {i \in DOMAIN choices : choices[i].kind = kind}

\* The choices from position i on are the leaves of bucket comps of (t, g),
\* one per component, in bucket order.
LeavesAt(i, t, g, comps) ==
    /\ i + Len(comps) - 1 <= Len(choices)
    /\ \A k \in DOMAIN comps :
          /\ choices[i + k - 1].kind = "comp"
          /\ choices[i + k - 1].type = t
          /\ choices[i + k - 1].group = g
          /\ choices[i + k - 1].comps = <<comps[k]>>

\* C24: the choice list holds one separator per type of structure when more
\* than one type is selected and none otherwise; for each bucket with a real
\* group name one group-level choice, directly followed by one leaf per
\* component in bucket order; for the ungrouped bucket the leaves alone; and
\* no other choice.
C24_ChoiceListShape ==
    pc = "itemsPrompt" =>
        /\ Cardinality(ChoicesOfKind("sep")) =
              (IF Len(selectedTypes) > 1 THEN Len(structure) ELSE 0)
        /\ \A e \in DOMAIN structure :
              /\ Len(selectedTypes) > 1 =>
                    Cardinality({i \in ChoicesOfKind("sep") : choices[i].type = structure[e].key}) = 1
              /\ \A b \in DOMAIN structure[e].val :
                    LET t == structure[e].key
                        g == structure[e].val[b].key
                        comps == structure[e].val[b].val
                        headers == {i \in ChoicesOfKind("group") :
                                       choices[i].type = t /\ choices[i].group = g}
                    IN  IF g = UNGROUPED
                        THEN /\ headers = {}
                             /\ \E i \in DOMAIN choices : LeavesAt(i, t, g, comps)
                        ELSE /\ Cardinality(headers) = 1
                             /\ \A i \in headers :
                                   choices[i].comps = comps /\ LeavesAt(i + 1, t, g, comps)
        /\ Cardinality(ChoicesOfKind("comp")) = StructureSize
        /\ Cardinality(ChoicesOfKind("group")) =
              SumNat([e \in DOMAIN structure |->
                        Cardinality({b \in DOMAIN structure[e].val :
                                        structure[e].val[b].key # UNGROUPED})])

\* C24 witness: two selected types, an ungrouped bucket and a real group.
C24_Witness ==
    /\ pc = "itemsPrompt"
    /\ Len(selectedTypes) > 1
    /\ Len(structure) > 1
    /\ \E e \in DOMAIN structure : \E b, c \in DOMAIN structure[e].val :
          structure[e].val[b].key = UNGROUPED /\ structure[e].val[c].key # UNGROUPED

\* C25 as stated: the keys of the selectable choices are pairwise distinct,
\* so every key resolves to the components of the choice that declared it.
C25_KeysDistinct ==
    pc = "itemsPrompt" =>
        /\ \A i, j \in Selectable : i # j => choices[i].value # choices[j].value
        /\ \A i \in Selectable : Expand(choices, choices[i].value) = choices[i].comps

\* The pairs of the components of a selected type that have a group, as the
\* code tests it.
GroupedPairs ==
    {PairOf(components[i]) :
        i \in {j \in DOMAIN components :
                  /\ Field(components[j], "type") \in Range(selectedTypes)
                  /\ Truthy(Field(components[j], "group"))}}

\* C26 as stated: every pair of availableGroups is the type and group of a
\* loaded component, different pairs of components give different pairs, and
\* a pair chosen at the group prompt finds its components in structure.
C26_PairsExact ==
    /\ pc \in {"groupsPrompt", "itemsPrompt"} =>
          /\ \A k \in DOMAIN availableGroups :
                \E i \in DOMAIN components : PairOf(components[i]) = availableGroups[k]
          /\ Cardinality(Range(availableGroups)) = Cardinality(GroupedPairs)
    /\ (pc = "itemsPrompt" /\ ~selectedGroups.null) =>
          \A k \in DOMAIN selectedGroups.pairs :
              BucketOf(selectedGroups.pairs[k].type, selectedGroups.pairs[k].group) # <<>>

\* C27 as stated: at the item prompt the choice list holds at least one leaf,
\* a confirmed answer finalizes to a non-empty list, and run() never ends
\* with "no components selected".
C27_LeafAlwaysOffered ==
    /\ pc = "itemsPrompt" => ChoicesOfKind("comp") # {}
    /\ pc \in PastItems => Len(selected) > 0
    /\ pc # "noneSelected"

\* C28: every entry of the finalized list is, without its id, a loaded
\* component of a selected type whose pair, when a restriction is in force
\* and the component has a group, is one of the selected pairs; written
\* separately, its file holds exactly its content.
C28_FinalizedAreLoaded ==
    /\ pc \in PastItems =>
          \A i \in DOMAIN selected :
              /\ \E j \in DOMAIN components : WithoutId(selected[i]) = components[j]
              /\ Field(selected[i], "type") \in Range(selectedTypes)
              /\ (~selectedGroups.null /\ Truthy(Field(selected[i], "group"))) =>
                    PairOf(selected[i]) \in Range(selectedGroups.pairs)
    /\ SeparateDone =>
          \A i \in DOMAIN selected :
              /\ uniqueFileName(selected[i]) \in DOMAIN dist
              /\ dist[uniqueFileName(selected[i])] = Field(selected[i], "content")

\* C28 witness: separate files written for a selection made under a
\* restriction to pairs, with a grouped and an ungrouped entry.
C28_Witness ==
    /\ SeparateDone
    /\ ~selectedGroups.null
    /\ \E i, j \in DOMAIN selected :
          /\ Truthy(Field(selected[i], "group"))
          /\ ~Truthy(Field(selected[j], "group"))

\* C29: after the load, through selection and generation, this.components is
\* the list the load built, in its order, and no stored record nor any
\* component of a choice carries an id; two entries of the finalized list
\* that copy one component hold different ids, each its own position.
C29_LoadedListUntouched ==
    /\ pc # "start" =>
          /\ components = LoadResult(dirExists, listing).components
          /\ \A i \in DOMAIN components : "uniqueId" \notin DOMAIN components[i]
          /\ \A c \in DOMAIN choices : \A i \in DOMAIN choices[c].comps :
                "uniqueId" \notin DOMAIN choices[c].comps[i]
    /\ pc \in PastItems =>
          \A i, j \in DOMAIN selected :
              (i < j /\ WithoutId(selected[i]) = WithoutId(selected[j])) =>
                  /\ selected[i].uniqueId = i - 1
                  /\ selected[j].uniqueId = j - 1

\* C29 witness: files generated from a finalized list that holds one
\* component twice.
C29_Witness ==
    /\ pc = "done"
    /\ \E i, j \in DOMAIN selected :
          i # j /\ WithoutId(selected[i]) = WithoutId(selected[j])
    /\ components # <<>>

====
